---------------------------- MODULE Spec2Model ----------------------------
(***************************************************************************)
(* Resource-usage bar reports: assignment2.py (memory report) and duim.py  *)
(* (disk report).                                                          *)
(*                                                                         *)
(* Python floats are modelled as exact rationals [num, den] with den > 0;  *)
(* Python strings that the properties look into are sequences of           *)
(* one-character strings.  The text sources are readable or missing;      *)
(* other I/O errors are not modelled.                                      *)
(***************************************************************************)
EXTENDS Integers, Sequences, FiniteSets, TLC

VARIABLES
    \* ---- bar renderers, called on their own
    percent,        \* the percentage handed to the renderers, a rational
    total_chars,    \* the bar width handed to the renderers
    duimBar,        \* outcome of duim.percent_to_graph(percent, total_chars)
    a2Bar,          \* outcome of assignment2.percent_to_graph(percent/100, total_chars)
    \* ---- the memory readers, called on their own
    meminfo,        \* /proc/meminfo: a sequence of lines "KEY: <val> kB"
    sysMemRet,        \* outcome of get_sys_mem()
    availMemRet,      \* outcome of get_avail_mem()
    smaps,          \* /proc/<pid>/smaps: Missing, or a file of lines "KEY <val> kB"
    a2Rss,          \* outcome of assignment2.rss_mem_of_pid(pid)
    duimRss,        \* outcome of duim.get_rss_total(pid)
    \* ---- the size formatters of duim.main, called on their own
    size,           \* the size handed to the formatters
    humanRet,       \* outcome of human_readable(size) under -H
    plainRet,       \* outcome of human_readable(size) without -H
    \* ---- duim.main
    dArgs,          \* parsed arguments: human_readable, length
    duProc,         \* what running du gives: returncode and stdout
    du_output,      \* local of main: the list call_du_sub returns
    dir_dict,       \* local of main: (directory, size) pairs in insertion order
    total_size,     \* local of main
    dNext,          \* index of the next entry of dir_dict to print
    dOut,           \* the lines printed so far
    dPc,            \* position in main
    dExit,          \* "running", an exit status, or the exception that ended main
    \* ---- assignment2.main
    mArgs,          \* parsed arguments: human_readable, length, program ("" when absent)
    total_mem,      \* local of main
    avail_mem,      \* local of main
    used_mem,       \* local of main
    pids,           \* local of main: what pids_of_prog returned
    mResolved,      \* line 84 has run
    mNext,          \* index of the next entry of pids to print
    mOut,           \* the lines printed so far
    mPc,            \* position in main
    mExit           \* "running", an exit status, or the exception that ended main

barVars == <<percent, total_chars, duimBar, a2Bar>>
memInfoVars == <<meminfo, sysMemRet, availMemRet>>
rssVars == <<smaps, a2Rss, duimRss>>
humanVars == <<size, humanRet, plainRet>>
diskVars == <<dArgs, duProc, du_output, dir_dict, total_size, dNext, dOut, dPc, dExit>>

memVars == <<mArgs, total_mem, avail_mem, used_mem, pids, mResolved, mNext, mOut, mPc, mExit>>

vars == <<barVars, memInfoVars, rssVars, humanVars, diskVars, memVars>>

notBar == <<memInfoVars, rssVars, humanVars, diskVars, memVars>>
notMemInfo == <<barVars, rssVars, humanVars, diskVars, memVars>>
notRss == <<barVars, memInfoVars, humanVars, diskVars, memVars>>
notHuman == <<barVars, memInfoVars, rssVars, diskVars, memVars>>
notDisk == <<barVars, memInfoVars, rssVars, humanVars, memVars>>
notMem == <<barVars, memInfoVars, rssVars, humanVars, diskVars>>

-----------------------------------------------------------------------------
(* Bounds of the model *)

\* widest bar handed to a renderer
MaxWidth == 8
\* how far, in units of 1/den percent, the percentages reach outside [0,100]
PctSlack == 4
\* largest kB value on a line of /proc/meminfo or smaps
MaxKB == 2
\* most lines of /proc/meminfo
MaxMemLines == 2
\* most lines of a smaps file
MaxSmapsLines == 3
\* how far the sizes handed to the formatters lie from a unit threshold
SizeDelta == 20
\* most lines du prints
MaxLines == 2
\* most processes pidof reports, and the largest PID
MaxPids == 2

-----------------------------------------------------------------------------
(* Python primitives *)

\* str * n: n copies, the empty string when n <= 0
Rep(c, n) == [i \in 1..n |-> c]

Rat(n, d) == [num |-> n, den |-> d]

\* a rational times an integer, divided by an integer > 0
RatMul(x, k) == Rat(x.num * k, x.den)
RatDiv(x, k) == Rat(x.num, x.den * k)

RatLeq(x, y) == x.num * y.den <= y.num * x.den

\* int(x): truncation toward zero
PyInt(x) ==
    IF x.num >= 0 THEN x.num \div x.den ELSE -((-x.num) \div x.den)

\* round(x): to the nearest integer, a tie to the even neighbour
PyRound(x) ==
    LET q == x.num \div x.den
        r == x.num % x.den
    IN  IF 2 * r < x.den THEN q
        ELSE IF 2 * r > x.den THEN q + 1
        ELSE IF q % 2 = 0 THEN q ELSE q + 1

-----------------------------------------------------------------------------
(* The two bar renderers *)

\* the same with the bar's remainder not reduced by the filled part
duim_percent_to_graph_unreduced(pct, total) ==
    IF ~(RatLeq(Rat(0, 1), pct) /\ RatLeq(pct, Rat(100, 1)))
    THEN [kind |-> "ValueError"]
    ELSE LET filled_length == PyRound(RatMul(RatDiv(pct, 100), total))
         IN  [kind |-> "str",
              bar  |-> Rep("=", filled_length) \o Rep(" ", total)]

\* duim.percent_to_graph
duim_percent_to_graph(pct, total) ==
    IF ~(RatLeq(Rat(0, 1), pct) /\ RatLeq(pct, Rat(100, 1)))
    THEN [kind |-> "ValueError"]
    ELSE LET filled_length == PyRound(RatMul(RatDiv(pct, 100), total))
         IN  [kind |-> "str",
              bar  |-> Rep("=", filled_length) \o Rep(" ", total - filled_length)]

\* assignment2.percent_to_graph: bar is the region between "[" and " | NN%]";
\* that decoration is not part of the model
a2_percent_to_graph(frac, length) ==
    LET num_hashes == PyInt(RatMul(frac, length))
        num_spaces == length - num_hashes
    IN  [kind |-> "str",
         bar  |-> Rep("#", num_hashes) \o Rep(" ", num_spaces)]

-----------------------------------------------------------------------------
(* Readers of /proc/meminfo.  A line "KEY:   <val> kB" is [key, val]:     *)
(* line.startswith(K) is key = K, int(line.split()[1]) is val.             *)

RECURSIVE sys_mem_scan(_, _)
sys_mem_scan(lines, i) ==
    IF i > Len(lines) THEN 0
    ELSE IF lines[i].key = "MemTotal" THEN lines[i].val
    ELSE sys_mem_scan(lines, i + 1)

\* assignment2.get_sys_mem
get_sys_mem(lines) == sys_mem_scan(lines, 1)

RECURSIVE avail_mem_scan(_, _, _, _)
avail_mem_scan(lines, i, mem_free, mem_available) ==
    IF i > Len(lines) THEN [mem_free |-> mem_free, mem_available |-> mem_available]
    ELSE IF lines[i].key = "MemAvailable"
         THEN avail_mem_scan(lines, i + 1, mem_free, lines[i].val)
    ELSE IF lines[i].key = "MemFree"
         THEN avail_mem_scan(lines, i + 1, lines[i].val, mem_available)
    ELSE avail_mem_scan(lines, i + 1, mem_free, mem_available)

\* assignment2.get_avail_mem: "mem_available or (mem_free * 2)"
get_avail_mem(lines) ==
    LET r == avail_mem_scan(lines, 1, 0, 0)
    IN  IF r.mem_available # 0 THEN r.mem_available ELSE r.mem_free * 2

-----------------------------------------------------------------------------
(* Readers of /proc/<pid>/smaps *)

\* a smaps source: the file is there with these lines, or open() raises
\* FileNotFoundError
File(lines) == [exists |-> TRUE, lines |-> lines]
Missing == [exists |-> FALSE, lines |-> <<>>]

RECURSIVE rss_scan(_, _, _)
rss_scan(lines, i, rss) ==
    IF i > Len(lines) THEN rss
    ELSE IF lines[i].key = "Rss:" THEN rss_scan(lines, i + 1, rss + lines[i].val)
    ELSE rss_scan(lines, i + 1, rss)

RECURSIVE rss_scan_last(_, _, _)
rss_scan_last(lines, i, rss) ==
    IF i > Len(lines) THEN rss
    ELSE IF lines[i].key = "Rss:" THEN rss_scan_last(lines, i + 1, lines[i].val)
    ELSE rss_scan_last(lines, i + 1, rss)

\* the same, each Rss line overwriting the figure instead of adding to it
rss_mem_of_pid_last(source) ==
    IF ~source.exists THEN 0 ELSE rss_scan_last(source.lines, 1, 0)

\* assignment2.rss_mem_of_pid
rss_mem_of_pid(source) ==
    IF ~source.exists THEN 0 ELSE rss_scan(source.lines, 1, 0)

\* duim.get_rss_total
get_rss_total(source) ==
    IF ~source.exists THEN 0 ELSE rss_scan(source.lines, 1, 0)

-----------------------------------------------------------------------------
(* Python string primitives, on sequences of characters.  The characters   *)
(* are ASCII: int() is modelled for an optional sign followed by digits.   *)

IsWs(c) == c \in {" ", "\t", "\n"}

Digits == {"0", "1", "2", "3", "4", "5", "6", "7", "8", "9"}

DigitVal(c) ==
    CASE c = "0" -> 0 [] c = "1" -> 1 [] c = "2" -> 2 [] c = "3" -> 3
      [] c = "4" -> 4 [] c = "5" -> 5 [] c = "6" -> 6 [] c = "7" -> 7
      [] c = "8" -> 8 [] c = "9" -> 9

Min(S) == CHOOSE x \in S : \A y \in S : x <= y
Max(S) == CHOOSE x \in S : \A y \in S : x >= y

\* index of the first character of s at or after i that is (is not) whitespace,
\* Len(s) + 1 when there is none
NextWs(s, i) == Min({ j \in i..Len(s) : IsWs(s[j]) } \cup {Len(s) + 1})
NextNonWs(s, i) == Min({ j \in i..Len(s) : ~IsWs(s[j]) } \cup {Len(s) + 1})

\* s.strip()
PyStrip(s) ==
    LET nonws == { j \in 1..Len(s) : ~IsWs(s[j]) }
    IN  IF nonws = {} THEN <<>> ELSE SubSeq(s, Min(nonws), Max(nonws))

\* s.split('\n')
RECURSIVE PySplitLines(_)
PySplitLines(s) ==
    LET nl == { j \in 1..Len(s) : s[j] = "\n" }
    IN  IF nl = {} THEN <<s>>
        ELSE <<SubSeq(s, 1, Min(nl) - 1)>>
                \o PySplitLines(SubSeq(s, Min(nl) + 1, Len(s)))

\* s.split(maxsplit=1)
PySplit1(s) ==
    LET a == NextNonWs(s, 1)
        b == NextWs(s, a)
        c == NextNonWs(s, b)
    IN  IF a > Len(s) THEN <<>>
        ELSE IF c > Len(s) THEN <<SubSeq(s, a, b - 1)>>
        ELSE <<SubSeq(s, a, b - 1), SubSeq(s, c, Len(s))>>

IsDigits(t) == t # <<>> /\ \A j \in 1..Len(t) : t[j] \in Digits

RECURSIVE DecVal(_)
DecVal(t) ==
    IF t = <<>> THEN 0
    ELSE 10 * DecVal(SubSeq(t, 1, Len(t) - 1)) + DigitVal(t[Len(t)])

\* int(t): [ok, val], ok = FALSE standing for ValueError
PyIntStr(t) ==
    IF IsDigits(t) THEN [ok |-> TRUE, val |-> DecVal(t)]
    ELSE IF t # <<>> /\ t[1] \in {"+", "-"} /\ IsDigits(Tail(t))
         THEN [ok |-> TRUE, val |-> IF t[1] = "-" THEN -DecVal(Tail(t)) ELSE DecVal(Tail(t))]
    ELSE [ok |-> FALSE, val |-> 0]

-----------------------------------------------------------------------------
(* duim: running du, parsing its output, formatting sizes *)

\* duim.call_du_sub: [ok, lines]; ok = FALSE is "Error: ..." and sys.exit(1),
\* when du cannot be started or returns non-zero
call_du_sub(proc) ==
    IF ~proc.started \/ proc.returncode # 0 THEN [ok |-> FALSE, lines |-> <<>>]
    ELSE [ok |-> TRUE, lines |-> PySplitLines(PyStrip(proc.stdout))]

\* dir_dict[directory] = value on a dict kept as pairs in insertion order
DictSet(d, directory, value) ==
    IF \E n \in DOMAIN d : d[n].directory = directory
    THEN [n \in DOMAIN d |->
            IF d[n].directory = directory
            THEN [directory |-> directory, size |-> value] ELSE d[n]]
    ELSE Append(d, [directory |-> directory, size |-> value])

RECURSIVE dir_dict_loop_break(_, _, _)
dir_dict_loop_break(lines, i, d) ==
    IF i > Len(lines) THEN d
    ELSE LET parts == PySplit1(lines[i])
         IN  IF Len(parts) # 2 THEN d
             ELSE LET sz == PyIntStr(parts[1])
                  IN  IF ~sz.ok THEN d
                      ELSE dir_dict_loop_break(lines, i + 1, DictSet(d, parts[2], sz.val))

\* the same, leaving the loop at the first line that raises ValueError
create_dir_dict_break(lines) == dir_dict_loop_break(lines, 1, <<>>)

RECURSIVE dir_dict_loop(_, _, _)
dir_dict_loop(lines, i, d) ==
    IF i > Len(lines) THEN d
    ELSE LET parts == PySplit1(lines[i])
         IN  IF Len(parts) # 2 THEN dir_dict_loop(lines, i + 1, d)
             ELSE LET sz == PyIntStr(parts[1])
                  IN  IF ~sz.ok THEN dir_dict_loop(lines, i + 1, d)
                      ELSE dir_dict_loop(lines, i + 1, DictSet(d, parts[2], sz.val))

\* duim.create_dir_dict
create_dir_dict(lines) == dir_dict_loop(lines, 1, <<>>)

RECURSIVE SumSizes(_)
SumSizes(d) == IF d = <<>> THEN 0 ELSE d[1].size + SumSizes(Tail(d))

\* the same with the M threshold compared strictly
human_readable_strict(human, x) ==
    IF human
    THEN IF x >= 1000000000 THEN [value |-> Rat(x, 1000000000), decimals |-> 1, unit |-> "G"]
         ELSE IF x > 1000000 THEN [value |-> Rat(x, 1000000), decimals |-> 1, unit |-> "M"]
         ELSE [value |-> Rat(x, 1000), decimals |-> 1, unit |-> "K"]
    ELSE [value |-> Rat(x, 1), decimals |-> 0, unit |-> "B"]

\* the two lambdas of duim.main.  A formatted size is [value, decimals, unit]:
\* value printed with that many decimals, a space, the unit; the digits of the
\* rendering are not computed
human_readable(human, x) ==
    IF human
    THEN IF x >= 1000000000 THEN [value |-> Rat(x, 1000000000), decimals |-> 1, unit |-> "G"]
         ELSE IF x >= 1000000 THEN [value |-> Rat(x, 1000000), decimals |-> 1, unit |-> "M"]
         ELSE [value |-> Rat(x, 1000), decimals |-> 1, unit |-> "K"]
    ELSE [value |-> Rat(x, 1), decimals |-> 0, unit |-> "B"]

-----------------------------------------------------------------------------
(* assignment2: resolving a program name, formatting sizes *)

\* assignment2.pids_of_prog.  pidof prints decimal PIDs, which split() and
\* int() give back as o.pids; o.raised is an exception inside the try
pids_of_prog(o) ==
    IF o.raised THEN <<>>
    ELSE IF o.pids # <<>> THEN o.pids ELSE <<>>

\* the sizes of assignment2.main: f"{x / 1024:.2f} MiB" under -H, f"{x}" otherwise
a2_size(human, x) ==
    IF human THEN [value |-> Rat(x, 1024), decimals |-> 2, unit |-> "MiB"]
    ELSE [value |-> Rat(x, 1), decimals |-> 0, unit |-> ""]

\* one line of the memory report: the label column, the bar of amount / total_mem
\* and the two sizes
a2_line(kind, pid, amount, total, args) ==
    [kind  |-> kind,
     pid   |-> pid,
     frac  |-> Rat(amount, total),
     graph |-> a2_percent_to_graph(Rat(amount, total), args.length),
     used  |-> a2_size(args.human_readable, amount),
     total |-> a2_size(args.human_readable, total)]

RECURSIVE SumRss(_, _)
SumRss(sources, i) ==
    IF i > Len(sources) THEN 0
    ELSE rss_mem_of_pid(sources[i]) + SumRss(sources, i + 1)

-----------------------------------------------------------------------------
(* Inputs *)

NotCalled == [kind |-> "none"]

SeqsUpTo(S, n) == UNION { [1..k -> S] : k \in 0..n }

PctDens == {1, 8}

Percents ==
    UNION { { Rat(n, d) : n \in -PctSlack .. (100 * d + PctSlack) } : d \in PctDens }

Widths == -1 .. MaxWidth

KBs == 0..MaxKB

MemKeys == {"MemTotal", "MemFree", "MemAvailable", "Buffers"}
MemInfos == SeqsUpTo([key : MemKeys, val : KBs], MaxMemLines)

SmapsKeys == {"Rss:", "Pss:", "Size:"}
SmapsSources ==
    {Missing} \cup { File(l) : l \in SeqsUpTo([key : SmapsKeys, val : KBs], MaxSmapsLines) }

\* the smaps sources main meets: a missing one, or one region of each size
SmapsSamples == {Missing} \cup { File(<<[key |-> "Rss:", val |-> v]>>) : v \in KBs }

Thresholds == {0, 1000, 1000000, 1000000000}
Sizes == { t + d : t \in Thresholds, d \in -SizeDelta..SizeDelta } \cap Nat

\* lines du may print, and lines that are not of its format
SampleLines ==
    {
      <<"1", "0", "0", "\t", "/", "a">>,                              \* '100\t/a'
      <<"2", "0", "0", " ", "/", "b">>,                               \* '200 /b'
      <<"g", "a", "r", "b", "a", "g", "e", "-", "l", "i", "n", "e">>, \* 'garbage-line'
      <<"6", "0", "\t", "/", "c">>,                                   \* '60\t/c'
      <<>>,                                                           \* ''
      <<"0", "\t", "/", "z">>,                                        \* '0\t/z'
      <<" ", "7", " ", "/", "a">>,                                    \* ' 7 /a'
      <<"d", "u", ":", " ", "x">>,                                    \* 'du: x'
      <<"1", "2">>,                                                   \* '12'
      <<"3", " ", " ", "/", "a", " ", "b">>,                          \* '3  /a b'
      <<"3", "0", "0", " ", "/", "a">>,                               \* '300 /a'
      <<"4", " ">>                                                    \* '4 '
    }

\* stdout of du printing these lines
RECURSIVE StdoutOf(_)
StdoutOf(lines) ==
    IF lines = <<>> THEN <<>> ELSE lines[1] \o <<"\n">> \o StdoutOf(Tail(lines))

\* du not found, du failing, du printing up to MaxLines lines
DuProcs ==
    { [started |-> FALSE, returncode |-> 0, stdout |-> <<>>] }
    \cup { [started |-> TRUE, returncode |-> 1, stdout |-> <<>>] }
    \cup { [started |-> TRUE, returncode |-> 0, stdout |-> StdoutOf(l)] :
                l \in SeqsUpTo(SampleLines, MaxLines) }

DiskArgs == [human_readable : BOOLEAN, length : {1, MaxWidth}]

\* pidof prints each PID once
PidLists ==
    { l \in SeqsUpTo(1..MaxPids, MaxPids) :
        \A i, j \in DOMAIN l : i # j => l[i] # l[j] }

PidofOutcomes ==
    { [raised |-> TRUE, pids |-> <<>>] }
    \cup { [raised |-> FALSE, pids |-> l] : l \in PidLists }

MemArgs == [human_readable : BOOLEAN, length : {1, MaxWidth}, program : {"", "prog"}]

-----------------------------------------------------------------------------
(* Each specification runs one part; the variables of the others stay idle *)

BarIdle ==
    /\ percent = Rat(0, 1)
    /\ total_chars = 0
    /\ duimBar = NotCalled
    /\ a2Bar = NotCalled

MemInfoIdle ==
    /\ meminfo = <<>>
    /\ sysMemRet = NotCalled
    /\ availMemRet = NotCalled

RssIdle ==
    /\ smaps = Missing
    /\ a2Rss = NotCalled
    /\ duimRss = NotCalled

HumanIdle ==
    /\ size = 0
    /\ humanRet = NotCalled
    /\ plainRet = NotCalled

DiskIdle ==
    /\ dArgs = [human_readable |-> FALSE, length |-> 0]
    /\ duProc = [started |-> FALSE, returncode |-> 0, stdout |-> <<>>]
    /\ du_output = <<>>
    /\ dir_dict = <<>>
    /\ total_size = 0
    /\ dNext = 0
    /\ dOut = <<>>
    /\ dPc = "idle"
    /\ dExit = "running"

MemIdle ==
    /\ mArgs = [human_readable |-> FALSE, length |-> 0, program |-> ""]
    /\ total_mem = 0
    /\ avail_mem = 0
    /\ used_mem = 0
    /\ pids = <<>>
    /\ mResolved = FALSE
    /\ mNext = 0
    /\ mOut = <<>>
    /\ mPc = "idle"
    /\ mExit = "running"

IdleBut(part) ==
    /\ part = "bar" \/ BarIdle
    /\ part = "meminfo" \/ MemInfoIdle
    /\ part = "rss" \/ RssIdle
    /\ part = "human" \/ HumanIdle
    /\ part = "disk" \/ DiskIdle
    /\ part = "mem" \/ MemIdle

-----------------------------------------------------------------------------
(* Specification SpecBar: each renderer applied to a percentage and a width *)

BarInit ==
    /\ IdleBut("bar")
    /\ percent \in Percents
    /\ total_chars \in Widths
    /\ duimBar = NotCalled
    /\ a2Bar = NotCalled

DuimRender ==
    /\ duimBar = NotCalled
    /\ duimBar' = duim_percent_to_graph(percent, total_chars)
    /\ UNCHANGED <<percent, total_chars, a2Bar, notBar>>

A2Render ==
    /\ a2Bar = NotCalled
    /\ a2Bar' = a2_percent_to_graph(RatDiv(percent, 100), total_chars)
    /\ UNCHANGED <<percent, total_chars, duimBar, notBar>>

BarNext == DuimRender \/ A2Render

SpecBar == BarInit /\ [][BarNext]_vars

-----------------------------------------------------------------------------
(* Specification SpecMemInfo: the two readers applied to a /proc/meminfo *)

MemInfoInit ==
    /\ IdleBut("meminfo")
    /\ meminfo \in MemInfos
    /\ sysMemRet = NotCalled
    /\ availMemRet = NotCalled

GetSysMem ==
    /\ sysMemRet = NotCalled
    /\ sysMemRet' = [kind |-> "int", val |-> get_sys_mem(meminfo)]
    /\ UNCHANGED <<meminfo, availMemRet, notMemInfo>>

GetAvailMem ==
    /\ availMemRet = NotCalled
    /\ availMemRet' = [kind |-> "int", val |-> get_avail_mem(meminfo)]
    /\ UNCHANGED <<meminfo, sysMemRet, notMemInfo>>

MemInfoNext == GetSysMem \/ GetAvailMem

SpecMemInfo == MemInfoInit /\ [][MemInfoNext]_vars

-----------------------------------------------------------------------------
(* Specification SpecRss: the two smaps readers applied to a smaps source *)

RssInit ==
    /\ IdleBut("rss")
    /\ smaps \in SmapsSources
    /\ a2Rss = NotCalled
    /\ duimRss = NotCalled

RssMemOfPid ==
    /\ a2Rss = NotCalled
    /\ a2Rss' = [kind |-> "int", val |-> rss_mem_of_pid(smaps)]
    /\ UNCHANGED <<smaps, duimRss, notRss>>

GetRssTotal ==
    /\ duimRss = NotCalled
    /\ duimRss' = [kind |-> "int", val |-> get_rss_total(smaps)]
    /\ UNCHANGED <<smaps, a2Rss, notRss>>

RssNext == RssMemOfPid \/ GetRssTotal

SpecRss == RssInit /\ [][RssNext]_vars

-----------------------------------------------------------------------------
(* Specification SpecHuman: the size formatters of duim.main applied to a size *)

HumanInit ==
    /\ IdleBut("human")
    /\ size \in Sizes
    /\ humanRet = NotCalled
    /\ plainRet = NotCalled

HumanReadable ==
    /\ humanRet = NotCalled
    /\ humanRet' = human_readable(TRUE, size)
    /\ UNCHANGED <<size, plainRet, notHuman>>

PlainReadable ==
    /\ plainRet = NotCalled
    /\ plainRet' = human_readable(FALSE, size)
    /\ UNCHANGED <<size, humanRet, notHuman>>

HumanNext == HumanReadable \/ PlainReadable

SpecHuman == HumanInit /\ [][HumanNext]_vars

-----------------------------------------------------------------------------
(* Specification SpecDisk: duim.main *)

DiskInit ==
    /\ IdleBut("disk")
    /\ dArgs \in DiskArgs
    /\ duProc \in DuProcs
    /\ du_output = <<>>
    /\ dir_dict = <<>>
    /\ total_size = 0
    /\ dNext = 0
    /\ dOut = <<>>
    /\ dPc = "start"
    /\ dExit = "running"

\* line 103; on failure call_du_sub prints the error and exits with status 1
DCallDuSub ==
    /\ dPc = "start"
    /\ LET r == call_du_sub(duProc)
       IN  IF r.ok
           THEN /\ du_output' = r.lines
                /\ dPc' = "parse"
                /\ UNCHANGED <<dOut, dExit>>
           ELSE /\ dOut' = Append(dOut, [kind |-> "error"])
                /\ dExit' = "1"
                /\ dPc' = "exit"
                /\ UNCHANGED du_output
    /\ UNCHANGED <<dArgs, duProc, dir_dict, total_size, dNext, notDisk>>

\* line 104
DCreateDirDict ==
    /\ dPc = "parse"
    /\ dir_dict' = create_dir_dict(du_output)
    /\ dPc' = "total"
    /\ UNCHANGED <<dArgs, duProc, du_output, total_size, dNext, dOut, dExit, notDisk>>

\* lines 106-116
DPrintTotal ==
    /\ dPc = "total"
    /\ total_size' = SumSizes(dir_dict)
    /\ dOut' = Append(dOut, [kind |-> "total",
                             size |-> human_readable(dArgs.human_readable, total_size')])
    /\ dNext' = 1
    /\ IF dir_dict = <<>>
       THEN dPc' = "exit" /\ dExit' = "0"
       ELSE dPc' = "loop" /\ UNCHANGED dExit
    /\ UNCHANGED <<dArgs, duProc, du_output, dir_dict, notDisk>>

\* lines 117-120, one iteration
DPrintDir ==
    /\ dPc = "loop"
    /\ LET entry == dir_dict[dNext]
           pct == IF total_size > 0 THEN Rat(entry.size * 100, total_size)
                  ELSE Rat(0, 1)
           bar == duim_percent_to_graph(pct, dArgs.length)
       IN  IF bar.kind = "ValueError"
           THEN /\ dExit' = "ValueError"
                /\ dPc' = "exit"
                /\ UNCHANGED <<dOut, dNext>>
           ELSE /\ dOut' = Append(dOut, [kind      |-> "dir",
                                         percent   |-> pct,
                                         bar       |-> bar.bar,
                                         size      |-> human_readable(dArgs.human_readable, entry.size),
                                         directory |-> entry.directory])
                /\ dNext' = dNext + 1
                /\ IF dNext = Len(dir_dict)
                   THEN dPc' = "exit" /\ dExit' = "0"
                   ELSE dPc' = "loop" /\ UNCHANGED dExit
    /\ UNCHANGED <<dArgs, duProc, du_output, dir_dict, total_size, notDisk>>

DiskNext == DCallDuSub \/ DCreateDirDict \/ DPrintTotal \/ DPrintDir

SpecDisk == DiskInit /\ [][DiskNext]_vars

-----------------------------------------------------------------------------
(* Specification SpecMem: assignment2.main.  /proc/meminfo, pidof and the  *)
(* smaps files are read as they are at the moment of the read.             *)

MemInit ==
    /\ IdleBut("mem")
    /\ mArgs \in MemArgs
    /\ total_mem = 0
    /\ avail_mem = 0
    /\ used_mem = 0
    /\ pids = <<>>
    /\ mResolved = FALSE
    /\ mNext = 0
    /\ mOut = <<>>
    /\ mPc = "start"
    /\ mExit = "running"

\* lines 72-74
MReadMem ==
    /\ mPc = "start"
    /\ \E m \in MemInfos :
          /\ total_mem' = get_sys_mem(m)
          /\ avail_mem' = get_avail_mem(m)
          /\ used_mem' = get_sys_mem(m) - get_avail_mem(m)
    /\ mPc' = "print_mem"
    /\ UNCHANGED <<mArgs, pids, mResolved, mNext, mOut, mExit, notMem>>

\* lines 76-83; used_mem / total_mem raises ZeroDivisionError when total_mem is 0
MPrintMem ==
    /\ mPc = "print_mem"
    /\ IF total_mem = 0
       THEN /\ mExit' = "ZeroDivisionError"
            /\ mPc' = "exit"
            /\ UNCHANGED mOut
       ELSE /\ mOut' = Append(mOut, a2_line("memory", 0, used_mem, total_mem, mArgs))
            /\ IF mArgs.program # ""
               THEN mPc' = "pidof" /\ UNCHANGED mExit
               ELSE mPc' = "exit" /\ mExit' = "0"
    /\ UNCHANGED <<mArgs, total_mem, avail_mem, used_mem, pids, mResolved, mNext, notMem>>

\* the same without the return after "not found"
MPidsOfProg_noreturn ==
    /\ mPc = "pidof"
    /\ \E o \in PidofOutcomes :
          /\ pids' = pids_of_prog(o)
          /\ mResolved' = TRUE
          /\ mNext' = 1
          /\ IF pids_of_prog(o) = <<>>
             THEN /\ mOut' = Append(mOut, [kind |-> "notfound"])
                  /\ mPc' = "total"
             ELSE /\ mPc' = "loop"
                  /\ UNCHANGED mOut
          /\ UNCHANGED mExit
    /\ UNCHANGED <<mArgs, total_mem, avail_mem, used_mem, notMem>>

\* lines 84-87
MPidsOfProg ==
    /\ mPc = "pidof"
    /\ \E o \in PidofOutcomes :
          /\ pids' = pids_of_prog(o)
          /\ mResolved' = TRUE
          /\ mNext' = 1
          /\ IF pids_of_prog(o) = <<>>
             THEN /\ mOut' = Append(mOut, [kind |-> "notfound"])
                  /\ mPc' = "exit"
                  /\ mExit' = "0"
             ELSE /\ mPc' = "loop"
                  /\ UNCHANGED <<mOut, mExit>>
    /\ UNCHANGED <<mArgs, total_mem, avail_mem, used_mem, notMem>>

\* lines 89-95, one iteration
MPrintPid ==
    /\ mPc = "loop"
    /\ \E source \in SmapsSamples :
          LET rss_mem == rss_mem_of_pid(source)
          IN  IF total_mem = 0
              THEN /\ mExit' = "ZeroDivisionError"
                   /\ mPc' = "exit"
                   /\ UNCHANGED <<mOut, mNext>>
              ELSE /\ mOut' = Append(mOut, a2_line("pid", pids[mNext], rss_mem, total_mem, mArgs))
                   /\ mNext' = mNext + 1
                   /\ mPc' = IF mNext = Len(pids) THEN "total" ELSE "loop"
                   /\ UNCHANGED mExit
    /\ UNCHANGED <<mArgs, total_mem, avail_mem, used_mem, pids, mResolved, notMem>>

\* lines 98-103: every smaps file is read again for the program's total
MPrintProgram ==
    /\ mPc = "total"
    /\ \E sources \in [DOMAIN pids -> SmapsSamples] :
          LET total_rss == SumRss(sources, 1)
          IN  IF total_mem = 0
              THEN /\ mExit' = "ZeroDivisionError"
                   /\ UNCHANGED mOut
              ELSE /\ mOut' = Append(mOut, a2_line("program", 0, total_rss, total_mem, mArgs))
                   /\ mExit' = "0"
    /\ mPc' = "exit"
    /\ UNCHANGED <<mArgs, total_mem, avail_mem, used_mem, pids, mResolved, mNext, notMem>>

MemNext == MReadMem \/ MPrintMem \/ MPidsOfProg \/ MPrintPid \/ MPrintProgram

SpecMem == MemInit /\ [][MemNext]_vars

-----------------------------------------------------------------------------
(* Properties of the bar renderers *)

PercentInRange == RatLeq(Rat(0, 1), percent) /\ RatLeq(percent, Rat(100, 1))

ArgsInRange == PercentInRange /\ total_chars > 0

Count(s, c) == Cardinality({ i \in 1..Len(s) : s[i] = c })

\* s is f markers followed by width - f spaces, for some f in 0..width
IsBarOf(s, marker, width) ==
    \E f \in 0..width : s = Rep(marker, f) \o Rep(" ", width - f)

\* round half up: floor(x + 1/2)
RoundHalfUp(x) == (2 * x.num + x.den) \div (2 * x.den)

\* C1: for percent in [0,100] and width > 0 the bar region of each renderer is
\* filled markers followed by empty spaces, filled >= 0, empty >= 0 and
\* filled + empty = width
C1_BarFillsWidth ==
    ArgsInRange =>
        /\ duimBar # NotCalled =>
                duimBar.kind = "str" /\ IsBarOf(duimBar.bar, "=", total_chars)
        /\ a2Bar # NotCalled =>
                a2Bar.kind = "str" /\ IsBarOf(a2Bar.bar, "#", total_chars)

\* both renderers have drawn a bar that is partly filled and partly empty
C1_Witness ==
    /\ ArgsInRange
    /\ duimBar # NotCalled /\ a2Bar # NotCalled
    /\ duimBar.kind = "str" /\ a2Bar.kind = "str"
    /\ Count(duimBar.bar, "=") > 0 /\ Count(duimBar.bar, " ") > 0
    /\ Count(a2Bar.bar, "#") > 0 /\ Count(a2Bar.bar, " ") > 0

\* C2: for percent in [0,100] and width > 0 the number of filled characters is
\* percent/100 * width rounded half up, in the renderer of either report
C2_FilledIsRoundHalfUp ==
    ArgsInRange =>
        /\ duimBar # NotCalled =>
                /\ duimBar.kind = "str"
                /\ Count(duimBar.bar, "=")
                      = RoundHalfUp(RatMul(RatDiv(percent, 100), total_chars))
        /\ a2Bar # NotCalled =>
                /\ a2Bar.kind = "str"
                /\ Count(a2Bar.bar, "#")
                      = RoundHalfUp(RatMul(RatDiv(percent, 100), total_chars))

\* C3: either renderer fails with an invalid-argument error, returning no bar,
\* exactly when percent is outside [0,100] or width <= 0
C3_InvalidArgumentRaised ==
    /\ duimBar # NotCalled => (duimBar.kind = "ValueError" <=> ~ArgsInRange)
    /\ a2Bar # NotCalled => (a2Bar.kind = "ValueError" <=> ~ArgsInRange)

-----------------------------------------------------------------------------
(* Properties of the memory readers *)

\* the values carried by the lines of /proc/meminfo with key k
MemVals(k) == { meminfo[i].val : i \in { j \in DOMAIN meminfo : meminfo[j].key = k } }

\* C6: totalKB is the MemTotal value; availableKB is the MemAvailable value when
\* a MemAvailable line is present and 2 x MemFree exactly when none is; with none
\* of the three keys present both are 0
C6_ReadSystemMemory ==
    /\ sysMemRet # NotCalled =>
            /\ sysMemRet.kind = "int"
            /\ MemVals("MemTotal") # {} => sysMemRet.val \in MemVals("MemTotal")
            /\ MemVals("MemTotal") = {} => sysMemRet.val = 0
    /\ availMemRet # NotCalled =>
            /\ availMemRet.kind = "int"
            /\ MemVals("MemAvailable") # {} =>
                    availMemRet.val \in MemVals("MemAvailable")
            /\ MemVals("MemAvailable") = {} /\ MemVals("MemFree") # {} =>
                    availMemRet.val \in { 2 * v : v \in MemVals("MemFree") }
            /\ MemVals("MemAvailable") = {} /\ MemVals("MemFree") = {} =>
                    availMemRet.val = 0

RECURSIVE SumOver(_, _)
SumOver(f, S) ==
    IF S = {} THEN 0
    ELSE LET i == CHOOSE j \in S : TRUE IN f[i].val + SumOver(f, S \ {i})

RssLines == { i \in DOMAIN smaps.lines : smaps.lines[i].key = "Rss:" }

\* what C8 says a reader returns for the current smaps source
RssExpected == IF smaps = Missing THEN 0 ELSE SumOver(smaps.lines, RssLines)

\* C8: readProcessRSS returns the sum of the values of every Rss: line of the
\* source, 0 when there is none, and 0 without raising when the source is missing
C8_RssIsSumOfRssLines ==
    /\ a2Rss # NotCalled => a2Rss.kind = "int" /\ a2Rss.val = RssExpected
    /\ duimRss # NotCalled => duimRss.kind = "int" /\ duimRss.val = RssExpected

\* both readers have summed a source with several differing Rss: lines and a
\* line of another key
C8_Witness ==
    /\ smaps # Missing
    /\ a2Rss # NotCalled /\ duimRss # NotCalled
    /\ \E i, j \in RssLines :
            smaps.lines[i].val > smaps.lines[j].val /\ smaps.lines[j].val > 0
    /\ \E i \in DOMAIN smaps.lines :
            smaps.lines[i].key # "Rss:" /\ smaps.lines[i].val > 0
    /\ a2Rss.val = duimRss.val /\ a2Rss.val > MaxKB

-----------------------------------------------------------------------------
(* Properties of the size formatter *)

-----------------------------------------------------------------------------
(* Properties of the disk report *)

\* [path, size] for each way of reading line as <integer><whitespace><path>,
\* whitespace before the integer allowed: characters 1..j whitespace, j+1..k
\* the integer, k+1..m-1 whitespace, the path from m, which is not whitespace,
\* to the end of the line
Readings(line) ==
    { [path |-> SubSeq(line, t[3], Len(line)),
       size |-> PyIntStr(SubSeq(line, t[1] + 1, t[2])).val] :
        t \in { t \in (0..Len(line)) \X (1..Len(line)) \X (1..Len(line)) :
                  /\ t[1] < t[2] /\ t[2] + 1 < t[3]
                  /\ \A i \in 1..t[1] : IsWs(line[i])
                  /\ \A i \in (t[1] + 1)..t[2] : ~IsWs(line[i])
                  /\ PyIntStr(SubSeq(line, t[1] + 1, t[2])).ok
                  /\ \A i \in (t[2] + 1)..(t[3] - 1) : IsWs(line[i])
                  /\ ~IsWs(line[t[3]]) } }

\* the paths of the well-formed lines of du_output
PathsRead ==
    { r.path : r \in UNION { Readings(du_output[i]) : i \in DOMAIN du_output } }

\* the index of the last line of du_output that reads as path
LastLineOf(path) ==
    Max({ i \in DOMAIN du_output : \E r \in Readings(du_output[i]) : r.path = path })

RECURSIVE SumOfSizes(_, _)
SumOfSizes(d, S) ==
    IF S = {} THEN 0
    ELSE LET n == CHOOSE x \in S : TRUE IN d[n].size + SumOfSizes(d, S \ {n})

DictBuilt == dPc \in {"total", "loop", "exit"} /\ dExit # "1"
TotalBuilt == dPc \in {"loop", "exit"} /\ dExit # "1"

\* C7: every line that reads as <integer><whitespace><path> is mapped to
\* path -> size (the last such line of a path giving its size), every other
\* line is skipped without aborting, the mapping holds exactly the well-formed
\* lines' paths, and the total is the sum of the mapping's values
C7_ParseSizeOutput ==
    /\ DictBuilt =>
          /\ \A p \in PathsRead :
                \E n \in DOMAIN dir_dict :
                    /\ dir_dict[n].directory = p
                    /\ [path |-> p, size |-> dir_dict[n].size]
                          \in Readings(du_output[LastLineOf(p)])
          /\ { dir_dict[n].directory : n \in DOMAIN dir_dict } = PathsRead
          /\ \A n1, n2 \in DOMAIN dir_dict :
                dir_dict[n1].directory = dir_dict[n2].directory => n1 = n2
    /\ TotalBuilt => total_size = SumOfSizes(dir_dict, DOMAIN dir_dict)

\* the total has been taken of a mapping built from a well-formed line and a
\* skipped line
C7_Witness ==
    /\ TotalBuilt
    /\ \E i \in DOMAIN du_output : Readings(du_output[i]) # {}
    /\ \E i \in DOMAIN du_output : Readings(du_output[i]) = {}
    /\ dir_dict # <<>>
    /\ total_size > 0

\* the disk half of C4: with a total of 0 every directory is printed with 0 %
\* and main ends with status 0
DiskZeroTotal ==
    TotalBuilt /\ total_size = 0 =>
        /\ dExit \in {"running", "0"}
        /\ \A n \in DOMAIN dOut :
              dOut[n].kind = "dir" => dOut[n].percent = Rat(0, 1)
        /\ dPc = "exit" => Len(dOut) = 1 + Len(dir_dict)

-----------------------------------------------------------------------------
(* Properties of the memory report *)

MemRead == mPc \in {"print_mem", "pidof", "loop", "total", "exit"}

\* the memory half of C4: with totalKB = 0 no division faults, every percentage
\* printed is 0 and the system memory line is printed
MemZeroTotal ==
    MemRead /\ total_mem = 0 =>
        /\ mExit # "ZeroDivisionError"
        /\ \A n \in DOMAIN mOut :
              mOut[n].kind # "notfound" => mOut[n].frac.num = 0
        /\ mPc = "exit" => mOut # <<>>

\* C4: in both reports, whenever the total used as the denominator is 0, every
\* computed percentage is 0 and the report completes without a division fault
C4_ZeroTotalGivesZeroPercent == DiskZeroTotal /\ MemZeroTotal

\* C5: the used memory displayed on the system memory line and handed to the
\* renderer lies in [0, totalKB]
C5_UsedMemoryClamped ==
    \A n \in DOMAIN mOut :
        mOut[n].kind = "memory" =>
            /\ mOut[n].used.value.num >= 0
            /\ mOut[n].used.value.num <= total_mem
            /\ RatLeq(Rat(0, 1), mOut[n].frac)
            /\ RatLeq(mOut[n].frac, Rat(1, 1))

Kinds(out) == [n \in DOMAIN out |-> out[n].kind]

\* the label columns of the per-process lines, in the order printed
PidsPrinted(out) ==
    LET at == { n \in DOMAIN out : out[n].kind = "pid" }
    IN  [k \in 1..Cardinality(at) |->
            out[CHOOSE n \in at : Cardinality({ x \in at : x <= n }) = k].pid]

\* C10: once the program name has been resolved, no PID means the system memory
\* line, then one "not found" line, no per-process or program-total line, no
\* error and status 0; one PID or more means the system memory line, then one
\* line per PID in resolution order, then one program-total line, status 0
C10_NotFoundOrOneLinePerPid ==
    mResolved =>
        /\ mArgs.program # ""
        /\ mExit \in {"running", "0"}
        /\ mPc \in {"loop", "total", "exit"}
        /\ mExit = "0" <=> mPc = "exit"
        /\ pids = <<>> =>
              /\ mPc = "exit"
              /\ Kinds(mOut) = <<"memory", "notfound">>
        /\ pids # <<>> =>
              /\ mPc = "loop" =>
                    /\ mNext \in 1..Len(pids)
                    /\ Kinds(mOut) = <<"memory">> \o [k \in 1..(mNext - 1) |-> "pid"]
                    /\ PidsPrinted(mOut) = SubSeq(pids, 1, mNext - 1)
              /\ mPc = "total" =>
                    /\ Kinds(mOut) = <<"memory">> \o [k \in 1..Len(pids) |-> "pid"]
                    /\ PidsPrinted(mOut) = pids
              /\ mPc = "exit" =>
                    /\ Kinds(mOut) = <<"memory">> \o [k \in 1..Len(pids) |-> "pid"]
                                        \o <<"program">>
                    /\ PidsPrinted(mOut) = pids
        /\ mPc # "exit" => ENABLED MemNext

\* the report has ended on "not found"
C10_Witness ==
    /\ mResolved
    /\ pids = <<>>
    /\ mPc = "exit"
    /\ Len(mOut) = 2

\* the report has ended after the lines of several processes
C10_SeveralPids ==
    /\ mResolved
    /\ Len(pids) > 1
    /\ mPc = "exit"

=============================================================================
